---- MODULE Spec2Model ----
(***************************************************************************)
(* Keypair commands of the CLI (keypairs list, keypairs generate,          *)
(* generateKeypairsForOrg) running against the registry, and the daemon's  *)
(* NewConfig directory check.                                              *)
(***************************************************************************)
EXTENDS Integers, Sequences, FiniteSets, TLC

VARIABLES
    \* ---- registry (remote, shared by every invocation)
    orgs,          \* sequence of OrgResult [id, name] the user belongs to
    keypairs,      \* <<org, key type>> -> number of active and of revoked keypairs
    epoch,         \* number of revocations performed so far
    genEvents,     \* history: the generate requests the registry received
    \* ---- one CLI invocation per process
    pc,            \* position of the invocation in its command
    cmd,           \* the command and its flags / arguments
    subjectOrgs,   \* ids of the target orgs
    orgNames,      \* map org id -> name
    toList,        \* orgs the listing loop has not visited yet
    hasKey,        \* set of <<org id, key type>> seen non-revoked
    pErr,          \* listing loop error
    regenOrgs,     \* map org id -> name of the orgs to generate for
    toGen,         \* orgs the generation loop has not visited yet
    rErr,          \* generation loop error
    orgID,         \* generateKeypairsForOrg's orgID argument / local
    log,           \* history: registry requests of the current run
    listed,        \* history: what Keypairs.List returned, per org
    revSince,      \* history: a keypair was revoked since the run began
    last,          \* history: summary of the last completed run
    prev,          \* history: digest of the run completed before that
    budget,        \* number of runs each process may still begin
    \* ---- daemon configuration
    fs,            \* file system: path -> [kind, mode]
    umask,         \* process umask applied by Mkdir
    cfgPc,         \* position inside NewConfig
    arigatoRoot,   \* NewConfig's argument, then the resolved root
    src,           \* the FileInfo of the last successful Stat
    statErr,       \* err of the first Stat: "nil", "notexist", "other"
    made,          \* history: NewConfig's Mkdir created the directory
    cfgResult      \* what NewConfig returned

regVars == <<orgs, keypairs, epoch, genEvents>>
cliVars == <<pc, cmd, subjectOrgs, orgNames, toList, hasKey, pErr, regenOrgs,
             toGen, rErr, orgID, log, listed, revSince, last, prev, budget>>
cfgVars == <<fs, umask, cfgPc, arigatoRoot, src, statErr, made, cfgResult>>
vars == <<regVars, cliVars, cfgVars>>

\* ------------------------------------------------------------------ bounds
MaxRuns == 2         \* runs of generateKeypairs the process of SpecSeq makes in sequence
MaxRevokes == 1      \* revocations the environment performs

\* ------------------------------------------------------------- data model
Procs == {"p1", "p2"}
SigningKeyType == "signing"
EncryptionKeyType == "encryption"
KeyTypes == {SigningKeyType, EncryptionKeyType}
OrgA == [id |-> "A", name |-> "a"]
OrgB == [id |-> "B", name |-> "b"]
OrgIds == {OrgA.id, OrgB.id}
NoOrg == "nil"
\* values of --org on the command line; "" is an absent flag
OrgFlags == {"", OrgA.name, OrgB.name}

SeqToSet(s) == {s[i] : i \in 1..Len(s)}

\* ---------------------------------------------------------------- registry
\* Keypair.Revoked(): derived from the revocation state of the keypair
Revoked(kp) == kp.revoked

\* client.Orgs.List
OrgsList == orgs

\* client.Orgs.GetByName: the org with that name, or nil
GetByName(name) ==
    IF \E i \in 1..Len(orgs) : orgs[i].name = name
    THEN (CHOOSE o \in SeqToSet(orgs) : o.name = name).id
    ELSE NoOrg

Repeat(x, n) == [i \in 1..n |-> x]

\* the keypairs of one org and type: the revoked ones are retained
KeypairsOf(o, t) ==
    Repeat([revoked |-> TRUE, org |-> o, type |-> t], keypairs[<<o, t>>].revoked)
    \o Repeat([revoked |-> FALSE, org |-> o, type |-> t], keypairs[<<o, t>>].active)

\* client.Keypairs.List: every keypair of the org, revoked ones included
KeypairsList(o) == KeypairsOf(o, SigningKeyType) \o KeypairsOf(o, EncryptionKeyType)

Active(kps, o, t) == kps[<<o, t>>].active > 0

\* isKeyComplete: a non-revoked keypair of each type exists
KeyComplete(kps, o) == \A t \in KeyTypes : Active(kps, o, t)

MissingTypes(kps, o) == {t \in KeyTypes : ~Active(kps, o, t)}

\* keypairs.generate(o): creates a keypair of each missing key type
RegistryGenerate(kps, o) ==
    [s \in DOMAIN kps |->
        IF s[1] = o /\ ~Active(kps, o, s[2]) THEN [kps[s] EXCEPT !.active = @ + 1]
        ELSE kps[s]]

\* keypairs.revoke(keypair): the keypair stays, marked revoked
RegistryRevoke(kps, s) ==
    [kps EXCEPT ![s] = [revoked |-> @.revoked + 1, active |-> @.active - 1]]

\* ------------------------------------------------------------- CLI helpers
\* the registry requests of one run: how many enumerations of orgs (Orgs.List
\* or GetByName), keypair listings and generations per org, which of them
\* failed, and whether a listing was issued after a generation
NoRequests ==
    [enum |-> 0, enumErr |-> FALSE,
     lists |-> [o \in OrgIds |-> 0], listErr |-> {},
     gens |-> [o \in OrgIds |-> 0], genErr |-> {}, late |-> FALSE]

EnumRequest(r, ok) == [r EXCEPT !.enum = @ + 1, !.enumErr = @ \/ ~ok]

ListRequest(r, o, ok) ==
    [r EXCEPT !.lists[o] = @ + 1,
              !.listErr = IF ok THEN @ ELSE @ \cup {o},
              !.late = @ \/ \E x \in OrgIds : r.gens[x] > 0]

GenRequest(r, o, ok) ==
    [r EXCEPT !.gens[o] = @ + 1, !.genErr = IF ok THEN @ ELSE @ \cup {o}]

Failed(r) == r.enumErr \/ r.listErr # {} \/ r.genErr # {}

\* what a listing showed: the <<type, revoked>> of every keypair returned
Shown(kps) == {<<kps[i].type, Revoked(kps[i])>> : i \in 1..Len(kps)}

\* the loop without its Revoked() test: every listed keypair counts
HasKeyOfAnyKeypair(kps) == {<<kps[i].org, kps[i].type>> : i \in 1..Len(kps)}

\* body of the loop over the listed keypairs: revoked ones are skipped
HasKeyOf(kps) ==
    {<<kps[i].org, kps[i].type>> : i \in {j \in 1..Len(kps) : ~Revoked(kps[j])}}

\* the selection with every target org taken
NeedsRegenAlways(hk, o) == TRUE

\* the selection with && in place of ||: only orgs lacking both keys
NeedsRegenIfBothMissing(hk, o) ==
    <<o, EncryptionKeyType>> \notin hk /\ <<o, SigningKeyType>> \notin hk

\* orgs which do not have both keys present
NeedsRegen(hk, o) ==
    <<o, EncryptionKeyType>> \notin hk \/ <<o, SigningKeyType>> \notin hk

\* one row of the table listKeypairs prints
Row(kp, orgName) == [ORG |-> orgName, KEYTYPE |-> kp.type, VALID |-> "YES"]

Command(op, all, org, id, lookupOrg) ==
    [orgID |-> id, org |-> org, op |-> op, all |-> all, lookupOrg |-> lookupOrg]

NoRun == [op |-> "none"]

\* what is remembered of the run before the last one: its targets, its
\* generation requests and the key-complete orgs it left, when it was a run
\* of generateKeypairs, every request of it succeeded and nothing has been
\* revoked since it began
Digest(run, revoked) ==
    IF run.op = "none" THEN NoRun
    ELSE IF run.op # "generate" \/ Failed(run.log) \/ revoked THEN [op |-> "other"]
    ELSE [gens |-> run.log.gens, op |-> run.op, subj |-> run.subj,
          complete |-> run.complete]

LocalsUnchanged ==
    UNCHANGED <<cmd, subjectOrgs, orgNames, toList, hasKey, pErr, regenOrgs, toGen,
                rErr, orgID, listed, revSince, last, prev, budget>>

\* the command returns after the requests in lg: its summary joins the
\* history and its locals die
Return(p, res, lg, printed, kps) ==
    /\ last' = [last EXCEPT ![p] =
                   [cmd |-> cmd[p], log |-> lg, op |-> cmd[p].op, subj |-> subjectOrgs[p],
                    complete |-> {o \in OrgIds : KeyComplete(kps, o)},
                    printed |-> printed, regen |-> DOMAIN regenOrgs[p],
                    result |-> res]]
    /\ log' = [log EXCEPT ![p] = NoRequests]
    /\ pc' = [pc EXCEPT ![p] = "idle"]
    /\ subjectOrgs' = [subjectOrgs EXCEPT ![p] = {}]
    /\ orgNames' = [orgNames EXCEPT ![p] = << >>]
    /\ toList' = [toList EXCEPT ![p] = {}]
    /\ hasKey' = [hasKey EXCEPT ![p] = {}]
    /\ pErr' = [pErr EXCEPT ![p] = FALSE]
    /\ regenOrgs' = [regenOrgs EXCEPT ![p] = << >>]
    /\ toGen' = [toGen EXCEPT ![p] = {}]
    /\ rErr' = [rErr EXCEPT ![p] = FALSE]
    /\ orgID' = [orgID EXCEPT ![p] = NoOrg]
    /\ listed' = [listed EXCEPT ![p] = {}]
    /\ UNCHANGED <<cmd, revSince, prev, budget>>

\* a command is invoked with its flags
Begin(p, c, first) ==
    /\ pc[p] = "idle"
    /\ budget[p] > 0
    /\ budget' = [budget EXCEPT ![p] = @ - 1]
    /\ cmd' = [cmd EXCEPT ![p] = c]
    /\ pc' = [pc EXCEPT ![p] = first]
    /\ orgID' = [orgID EXCEPT ![p] = c.orgID]
    /\ revSince' = [revSince EXCEPT ![p] = FALSE]
    /\ prev' = [prev EXCEPT ![p] = Digest(last[p], revSince[p])]
    /\ last' = [last EXCEPT ![p] = NoRun]
    /\ UNCHANGED <<subjectOrgs, orgNames, toList, hasKey, pErr, regenOrgs,
                   toGen, rErr, log, listed>>
    /\ UNCHANGED <<regVars, cfgVars>>

\* config.LoadConfig: its error is returned as it is
LoadConfig(p, here, next) ==
    /\ pc[p] = here
    /\ \E ok \in BOOLEAN :
        IF ok
        THEN /\ pc' = [pc EXCEPT ![p] = next]
             /\ log' = log
             /\ LocalsUnchanged
        ELSE Return(p, <<"LoadConfig error">>, log[p], << >>, keypairs)
    /\ UNCHANGED <<regVars, cfgVars>>

\* ------------------------------------------------------------ listKeypairs
LK_Begin(p) ==
    \E name \in OrgFlags \ {""} :
        Begin(p, Command("list", FALSE, name, NoOrg, FALSE), "lk_cfg")

LK_LoadConfig(p) == LoadConfig(p, "lk_cfg", "lk_org")

\* Look up the target org
LK_GetByName(p) ==
    /\ pc[p] = "lk_org"
    /\ \E ok \in BOOLEAN :
        LET org == IF ok THEN GetByName(cmd[p].org) ELSE NoOrg
            lg == EnumRequest(log[p], ok)
        IN  IF ~ok
            THEN Return(p, <<"Could not list keypairs, please try again.">>, lg, << >>, keypairs)
            ELSE IF org = NoOrg
            THEN Return(p, <<"Org not found.">>, lg, << >>, keypairs)
            ELSE /\ orgID' = [orgID EXCEPT ![p] = org]
                 /\ log' = [log EXCEPT ![p] = lg]
                 /\ pc' = [pc EXCEPT ![p] = "lk_list"]
                 /\ UNCHANGED <<cmd, subjectOrgs, orgNames, toList, hasKey, pErr,
                                regenOrgs, toGen, rErr, listed, revSince, last, prev,
                                budget>>
    /\ UNCHANGED <<regVars, cfgVars>>

\* client.Keypairs.List and the table of every keypair returned
LK_List(p) ==
    /\ pc[p] = "lk_list"
    /\ \E ok \in BOOLEAN :
        LET kps == KeypairsList(orgID[p])
            lg == ListRequest(log[p], orgID[p], ok)
        IN  IF ~ok
            THEN Return(p, <<"Could not list keypairs, please try again.">>, lg, << >>, keypairs)
            ELSE Return(p, <<"ok">>, lg,
                        [i \in 1..Len(kps) |-> Row(kps[i], cmd[p].org)], keypairs)
    /\ UNCHANGED <<regVars, cfgVars>>

ListKeypairs(p) ==
    \/ LK_Begin(p)
    \/ LK_LoadConfig(p)
    \/ LK_GetByName(p)
    \/ LK_List(p)

\* -------------------------------------------------------- generateKeypairs
GK_Begin(p) ==
    \E all \in BOOLEAN, name \in OrgFlags :
        /\ all => name = ""
        /\ Begin(p, Command("generate", all, name, NoOrg, FALSE), "gk_cfg")

GK_LoadConfig(p) == LoadConfig(p, "gk_cfg", "gk_orgs")

\* if ctx.Bool("all"): client.Orgs.List and the loop filling subjectOrgs
GK_OrgsList(p) ==
    /\ pc[p] = "gk_orgs"
    /\ cmd[p].all
    /\ \E ok \in BOOLEAN :
        LET lg == EnumRequest(log[p], ok)
            ids == {o.id : o \in SeqToSet(OrgsList)}
        IN  IF ~ok
            THEN Return(p, <<"Could not retrieve orgs, please try again.">>, lg, << >>, keypairs)
            ELSE /\ subjectOrgs' = [subjectOrgs EXCEPT ![p] = ids]
                 /\ orgNames' = [orgNames EXCEPT ![p] =
                        [id \in ids |-> (CHOOSE o \in SeqToSet(OrgsList) : o.id = id).name]]
                 /\ toList' = [toList EXCEPT ![p] = ids]
                 /\ log' = [log EXCEPT ![p] = lg]
                 /\ pc' = [pc EXCEPT ![p] = "gk_list"]
                 /\ UNCHANGED <<cmd, hasKey, pErr, regenOrgs, toGen, rErr, orgID,
                                listed, revSince, last, prev, budget>>
    /\ UNCHANGED <<regVars, cfgVars>>

\* else: the --org flag is checked and client.Orgs.GetByName looks the org up
GK_GetByName(p) ==
    /\ pc[p] = "gk_orgs"
    /\ ~cmd[p].all
    /\ IF cmd[p].org = ""
       THEN Return(p, <<"Missing flags: --org.">>, log[p], << >>, keypairs)
       ELSE \E ok \in BOOLEAN :
            LET org == IF ok THEN GetByName(cmd[p].org) ELSE NoOrg
                lg == EnumRequest(log[p], ok)
            IN  IF ~ok \/ org = NoOrg
                THEN Return(p, <<"Org '", cmd[p].org, "' not found.">>, lg, << >>, keypairs)
                ELSE /\ subjectOrgs' = [subjectOrgs EXCEPT ![p] = {org}]
                     /\ orgNames' = [orgNames EXCEPT ![p] = [id \in {org} |-> cmd[p].org]]
                     /\ toList' = [toList EXCEPT ![p] = {org}]
                     /\ log' = [log EXCEPT ![p] = lg]
                     /\ pc' = [pc EXCEPT ![p] = "gk_list"]
                     /\ UNCHANGED <<cmd, hasKey, pErr, regenOrgs, toGen, rErr, orgID,
                                    listed, revSince, last, prev, budget>>
    /\ UNCHANGED <<regVars, cfgVars>>

\* one iteration of the loop over subjectOrgs: client.Keypairs.List
GK_ListOrg(p) ==
    /\ pc[p] = "gk_list"
    /\ ~pErr[p]
    /\ \E o \in toList[p], ok \in BOOLEAN :
        LET kps == KeypairsList(o) IN
        /\ toList' = [toList EXCEPT ![p] = @ \ {o}]
        /\ log' = [log EXCEPT ![p] = ListRequest(@, o, ok)]
        /\ IF ok
           THEN /\ hasKey' = [hasKey EXCEPT ![p] = @ \cup HasKeyOf(kps)]
                /\ listed' = [listed EXCEPT ![p] = @ \cup {<<o, Shown(kps)>>}]
                /\ pErr' = pErr
           ELSE /\ pErr' = [pErr EXCEPT ![p] = TRUE]
                /\ UNCHANGED <<hasKey, listed>>
    /\ UNCHANGED <<pc, cmd, subjectOrgs, orgNames, regenOrgs, toGen, rErr, orgID,
                   revSince, last, prev, budget>>
    /\ UNCHANGED <<regVars, cfgVars>>

\* after the listing loop: pErr is reported, else regenOrgs is computed
GK_Select(p) ==
    /\ pc[p] = "gk_list"
    /\ pErr[p] \/ toList[p] = {}
    /\ IF pErr[p]
       THEN Return(p, <<"Error fetching required context.">>, log[p], << >>, keypairs)
       ELSE LET regen == {o \in subjectOrgs[p] : NeedsRegen(hasKey[p], o)} IN
            /\ regenOrgs' = [regenOrgs EXCEPT ![p] = [o \in regen |-> orgNames[p][o]]]
            /\ toGen' = [toGen EXCEPT ![p] = regen]
            /\ pc' = [pc EXCEPT ![p] = "gk_gen"]
            /\ UNCHANGED <<cmd, subjectOrgs, orgNames, toList, hasKey, pErr, rErr,
                           orgID, log, listed, revSince, last, prev, budget>>
    /\ UNCHANGED <<regVars, cfgVars>>

\* the registry serves one keypairs.generate request
Generate(p, o, ok) ==
    /\ keypairs' = IF ok THEN RegistryGenerate(keypairs, o) ELSE keypairs
    /\ genEvents' = genEvents \cup
          {[org |-> o, ok |-> ok, op |-> cmd[p].op,
            missing |-> MissingTypes(keypairs, o),
            created |-> {t \in KeyTypes :
                           keypairs'[<<o, t>>].active > keypairs[<<o, t>>].active}]}
    /\ UNCHANGED <<orgs, epoch>>

\* one iteration of the loop over regenOrgs: client.Keypairs.Generate
GK_Generate(p) ==
    /\ pc[p] = "gk_gen"
    /\ ~rErr[p]
    /\ \E o \in toGen[p], ok \in BOOLEAN :
        /\ toGen' = [toGen EXCEPT ![p] = @ \ {o}]
        /\ log' = [log EXCEPT ![p] = GenRequest(@, o, ok)]
        /\ rErr' = [rErr EXCEPT ![p] = ~ok]
        /\ Generate(p, o, ok)
    /\ UNCHANGED <<pc, cmd, subjectOrgs, orgNames, toList, hasKey, pErr, regenOrgs,
                   orgID, listed, revSince, last, prev, budget>>
    /\ UNCHANGED cfgVars

\* after the generation loop: rErr is reported, else success
GK_Finish(p) ==
    /\ pc[p] = "gk_gen"
    /\ rErr[p] \/ toGen[p] = {}
    /\ Return(p, IF rErr[p] THEN <<"Error while regenerating keypairs.">>
                 ELSE IF DOMAIN regenOrgs[p] # {}
                      THEN <<"Keypair generation successful.">>
                      ELSE <<"No keypairs missing.">>,
              log[p], << >>, keypairs)
    /\ UNCHANGED <<regVars, cfgVars>>

GenerateKeypairs(p) ==
    \/ GK_Begin(p)
    \/ GK_LoadConfig(p)
    \/ GK_OrgsList(p)
    \/ GK_GetByName(p)
    \/ GK_ListOrg(p)
    \/ GK_Select(p)
    \/ GK_Generate(p)
    \/ GK_Finish(p)

\* -------------------------------------------------- generateKeypairsForOrg
OutputErr == <<"Could not generate keypairs for org. Run '", "keypairs generate' to fix.">>

FO_Begin(p) ==
    \E id \in {NoOrg} \cup {o.id : o \in SeqToSet(orgs)}, lookupOrg \in BOOLEAN :
        Begin(p, Command("forOrg", FALSE, "", id, lookupOrg), "fo_check")

\* if orgID == nil && !lookupOrg
FO_Check(p) ==
    /\ pc[p] = "fo_check"
    /\ IF orgID[p] = NoOrg /\ ~cmd[p].lookupOrg
       THEN Return(p, OutputErr, log[p], << >>, keypairs)
       ELSE /\ pc' = [pc EXCEPT ![p] =
                        IF orgID[p] = NoOrg /\ cmd[p].lookupOrg THEN "fo_lookup"
                        ELSE "fo_gen"]
            /\ log' = log
            /\ LocalsUnchanged
    /\ UNCHANGED <<regVars, cfgVars>>

\* Lookup org if not supplied: the first org of client.Orgs.List
FO_Lookup(p) ==
    /\ pc[p] = "fo_lookup"
    /\ \E ok \in BOOLEAN :
        LET lg == EnumRequest(log[p], ok) IN
        IF ~ok \/ Len(OrgsList) < 1
        THEN Return(p, OutputErr, lg, << >>, keypairs)
        ELSE /\ orgID' = [orgID EXCEPT ![p] = OrgsList[1].id]
             /\ log' = [log EXCEPT ![p] = lg]
             /\ pc' = [pc EXCEPT ![p] = "fo_gen"]
             /\ UNCHANGED <<cmd, subjectOrgs, orgNames, toList, hasKey, pErr,
                            regenOrgs, toGen, rErr, listed, revSince, last, prev,
                            budget>>
    /\ UNCHANGED <<regVars, cfgVars>>

\* client.Keypairs.Generate for the resolved org
FO_Generate(p) ==
    /\ pc[p] = "fo_gen"
    /\ \E ok \in BOOLEAN :
        /\ Generate(p, orgID[p], ok)
        /\ Return(p, IF ok THEN <<"ok">> ELSE OutputErr,
                  GenRequest(log[p], orgID[p], ok), << >>, keypairs')
    /\ UNCHANGED cfgVars

GenerateKeypairsForOrg(p) ==
    \/ FO_Begin(p)
    \/ FO_Check(p)
    \/ FO_Lookup(p)
    \/ FO_Generate(p)

\* ------------------------------------------------------------- environment
\* another principal revokes a keypair at the registry; a revocation before
\* the first command begins is an initial state with that keypair revoked
Revoke ==
    /\ epoch < MaxRevokes
    /\ \E p \in Procs : cmd[p].op # "none"
    /\ \E s \in DOMAIN keypairs :
        /\ keypairs[s].active > 0
        /\ keypairs' = RegistryRevoke(keypairs, s)
    /\ epoch' = epoch + 1
    /\ revSince' = [p \in Procs |-> TRUE]
    /\ UNCHANGED <<orgs, genEvents, cfgVars>>
    /\ UNCHANGED <<pc, cmd, subjectOrgs, orgNames, toList, hasKey, pErr, regenOrgs,
                   toGen, rErr, orgID, log, listed, last, prev, budget>>

\* ------------------------------------------------------------------- Init
Slots == OrgIds \X KeyTypes
KeyStates ==
    {[revoked |-> 0, active |-> 0], [revoked |-> 0, active |-> 1],
     [revoked |-> 1, active |-> 0]}

\* the first org has no keypair, an active one or a revoked one of each type,
\* independently; the second org has the same of both types
InitRegistry ==
    /\ orgs \in {<< >>, <<OrgA>>, <<OrgA, OrgB>>}
    /\ keypairs \in [Slots -> KeyStates]
    /\ keypairs[<<OrgB.id, SigningKeyType>>] = keypairs[<<OrgB.id, EncryptionKeyType>>]
    /\ \A s \in Slots :
          s[1] \notin {o.id : o \in SeqToSet(orgs)} => keypairs[s].active + keypairs[s].revoked = 0
    /\ epoch = 0
    /\ genEvents = {}

InitCli ==
    /\ pc = [p \in Procs |-> "idle"]
    /\ cmd = [p \in Procs |-> Command("none", FALSE, "", NoOrg, FALSE)]
    /\ subjectOrgs = [p \in Procs |-> {}]
    /\ orgNames = [p \in Procs |-> << >>]
    /\ toList = [p \in Procs |-> {}]
    /\ hasKey = [p \in Procs |-> {}]
    /\ pErr = [p \in Procs |-> FALSE]
    /\ regenOrgs = [p \in Procs |-> << >>]
    /\ toGen = [p \in Procs |-> {}]
    /\ rErr = [p \in Procs |-> FALSE]
    /\ orgID = [p \in Procs |-> NoOrg]
    /\ log = [p \in Procs |-> NoRequests]
    /\ listed = [p \in Procs |-> {}]
    /\ revSince = [p \in Procs |-> FALSE]
    /\ last = [p \in Procs |-> NoRun]
    /\ prev = [p \in Procs |-> NoRun]

\* ------------------------------------------------------ daemon: NewConfig
REQUIRED_PERM == 448     \* 0700
version == "development"

HomeDir == <<"home">>                     \* os.Getenv("HOME")
Join(dir, name) == Append(dir, name)      \* path.Join
DefaultRoot == Join(HomeDir, ".arigato")
GivenRoot == <<"r">>
RootArgs == {<< >>, GivenRoot}            \* NewConfig's argument; << >> is ""
RootPaths == {GivenRoot, DefaultRoot}

Absent == [kind |-> "absent", mode |-> 0]
\* modes are the nine permission bits plus 512 for the sticky bit
FileModes == {420, 448}                   \* 0644, 0700
DirModes == {384, 448, 449, 488, 493, 960} \* 0600 0700 0701 0750 0755 01700
Umasks == {0, 18, 63, 64}                 \* 0, 022, 077, 0100
Entries ==
    {Absent} \cup [kind : {"file"}, mode : FileModes] \cup [kind : {"dir"}, mode : DirModes]

\* FileMode.Perm(): the permission bits of the mode
Perm(mode) == mode % 512

RECURSIVE AndNot(_, _, _)
\* the bits of a below 2^n that are not set in b
AndNot(a, b, n) ==
    IF n = 0 THEN 0
    ELSE 2 * AndNot(a \div 2, b \div 2, n - 1)
         + (IF a % 2 = 1 /\ b % 2 = 0 THEN 1 ELSE 0)

\* os.Mkdir(name, perm): the directory gets perm minus the umask
MkdirMode(perm, mask) == AndNot(perm, mask, 9)

\* IsDir()
IsDir(info) == info.kind = "dir"

\* the check with only the group and other bits looked at
PermMismatchGroupOther(info) == Perm(info.mode) % 64 # 0

\* fMode.Perm() != REQUIRED_PERM
PermMismatch(info) == Perm(info.mode) # REQUIRED_PERM

NoResult == [ok |-> FALSE, err |-> "none"]
Failure(e) == [ok |-> FALSE, err |-> e]
Config(root) ==
    [ok |-> TRUE, ArigatoRoot |-> root, SocketPath |-> Join(root, "daemon.socket"),
     PidPath |-> Join(root, "daemon.pid"), Version |-> version]

cfgUnchanged == UNCHANGED <<fs, umask, arigatoRoot, src, statErr, made>>

\* if len(arigatoRoot) == 0: the root defaults to $HOME/.arigato
NC_Resolve ==
    /\ cfgPc = "start"
    /\ arigatoRoot' = IF Len(arigatoRoot) = 0 THEN DefaultRoot ELSE arigatoRoot
    /\ cfgPc' = "stat"
    /\ UNCHANGED <<fs, umask, src, statErr, made, cfgResult>>
    /\ UNCHANGED <<regVars, cliVars>>

\* os.Stat(arigatoRoot) and the two early returns after it
NC_Stat ==
    /\ cfgPc = "stat"
    /\ \E other \in BOOLEAN :
        LET e == fs[arigatoRoot] IN
        IF other
        THEN /\ cfgResult' = Failure("stat")
             /\ cfgPc' = "done"
             /\ statErr' = "other"
             /\ src' = src
        ELSE IF e.kind = "absent"
        THEN /\ statErr' = "notexist"
             /\ cfgPc' = "mkdir"
             /\ UNCHANGED <<src, cfgResult>>
        ELSE IF ~IsDir(e)
        THEN /\ cfgResult' = Failure("exists but is not a dir")
             /\ cfgPc' = "done"
             /\ src' = e
             /\ statErr' = "nil"
        ELSE /\ src' = e
             /\ statErr' = "nil"
             /\ cfgPc' = "check"
             /\ cfgResult' = cfgResult
    /\ UNCHANGED <<fs, umask, arigatoRoot, made>>
    /\ UNCHANGED <<regVars, cliVars>>

\* if os.IsNotExist(err): os.Mkdir(arigatoRoot, REQUIRED_PERM)
NC_Mkdir ==
    /\ cfgPc = "mkdir"
    /\ \E ok \in BOOLEAN :
        IF ok
        THEN /\ fs' = [fs EXCEPT ![arigatoRoot] =
                          [kind |-> "dir", mode |-> MkdirMode(REQUIRED_PERM, umask)]]
             /\ made' = TRUE
             /\ cfgPc' = "restat"
             /\ cfgResult' = cfgResult
        ELSE /\ cfgResult' = Failure("mkdir")
             /\ cfgPc' = "done"
             /\ UNCHANGED <<fs, made>>
    /\ UNCHANGED <<umask, arigatoRoot, src, statErr>>
    /\ UNCHANGED <<regVars, cliVars>>

\* the second os.Stat, after the directory was made
NC_Restat ==
    /\ cfgPc = "restat"
    /\ \E ok \in BOOLEAN :
        IF ok
        THEN /\ src' = fs[arigatoRoot]
             /\ cfgPc' = "check"
             /\ cfgResult' = cfgResult
        ELSE /\ cfgResult' = Failure("stat")
             /\ cfgPc' = "done"
             /\ src' = src
    /\ UNCHANGED <<fs, umask, arigatoRoot, statErr, made>>
    /\ UNCHANGED <<regVars, cliVars>>

\* the permission check and the Config that is returned
NC_Check ==
    /\ cfgPc = "check"
    /\ cfgResult' = IF PermMismatch(src) THEN Failure("has permissions")
                    ELSE Config(arigatoRoot)
    /\ cfgPc' = "done"
    /\ cfgUnchanged
    /\ UNCHANGED <<regVars, cliVars>>

NewConfig ==
    \/ NC_Resolve
    \/ NC_Stat
    \/ NC_Mkdir
    \/ NC_Restat
    \/ NC_Check

\* ------------------------------------------------------- specifications
\* the daemon is not being started
InitCfgIdle ==
    /\ fs = [r \in RootPaths |-> Absent]
    /\ umask = 0
    /\ cfgPc = "off"
    /\ arigatoRoot = << >>
    /\ src = Absent
    /\ statErr = "nil"
    /\ made = FALSE
    /\ cfgResult = NoResult

\* one process runs one command
Init ==
    /\ InitRegistry
    /\ InitCli
    /\ budget = [p \in Procs |-> IF p = "p1" THEN 1 ELSE 0]
    /\ InitCfgIdle

Next ==
    \/ \E p \in Procs : ListKeypairs(p)
    \/ \E p \in Procs : GenerateKeypairs(p)
    \/ \E p \in Procs : GenerateKeypairsForOrg(p)
    \/ Revoke

Spec == Init /\ [][Next]_vars

\* one process runs generateKeypairs again and again
InitSeq ==
    /\ InitRegistry
    /\ InitCli
    /\ budget = [p \in Procs |-> IF p = "p1" THEN MaxRuns ELSE 0]
    /\ InitCfgIdle

NextGenerate ==
    \/ \E p \in Procs : GenerateKeypairs(p)
    \/ Revoke

SpecSeq == InitSeq /\ [][NextGenerate]_vars

\* two invocations of generateKeypairs run concurrently
InitConc ==
    /\ InitRegistry
    /\ InitCli
    /\ budget = [p \in Procs |-> 1]
    /\ InitCfgIdle

SpecConc == InitConc /\ [][NextGenerate]_vars

\* the daemon starts, NewConfig runs once, no command is running
InitConfig ==
    /\ orgs = << >>
    /\ keypairs = [s \in Slots |-> [revoked |-> 0, active |-> 0]]
    /\ epoch = 0
    /\ genEvents = {}
    /\ InitCli
    /\ budget = [p \in Procs |-> 0]
    /\ fs \in [RootPaths -> Entries]
    /\ umask \in Umasks
    /\ cfgPc = "start"
    /\ arigatoRoot \in RootArgs
    /\ src = Absent
    /\ statErr = "nil"
    /\ made = FALSE
    /\ cfgResult = NoResult

SpecConfig == InitConfig /\ [][NewConfig]_vars

\* ------------------------------------------------------------- properties
Success(res) ==
    res \in {<<"ok">>, <<"Keypair generation successful.">>, <<"No keypairs missing.">>}

IsNotFound(res) ==
    \/ res = <<"Org not found.">>
    \/ Len(res) = 3 /\ res[1] = "Org '" /\ res[3] = "' not found."

\* a run of generateKeypairs has returned, none of its registry requests
\* failed and no keypair was revoked since it began
CleanRun(p) ==
    /\ pc[p] = "idle"
    /\ last[p].op = "generate"
    /\ ~Failed(last[p].log)
    /\ ~revSince[p]

\* C1: two runs of generateKeypairs in sequence for the same org, with no
\* failed request and no revocation since the first began, issue at most one
\* generation request for the org between them, and the org is key-complete
\* after the first run and after the second.
C1_TwiceIsOnce ==
    \A p \in Procs : \A o \in OrgIds :
        (/\ CleanRun(p)
         /\ prev[p].op = "generate"
         /\ o \in prev[p].subj
         /\ o \in last[p].subj)
        => /\ prev[p].gens[o] + last[p].log.gens[o] <= 1
           /\ o \in prev[p].complete
           /\ o \in last[p].complete

\* the first run generated for an org lacking keys, the second found nothing
\* to do
C1_Witness ==
    \E p \in Procs : \E o \in OrgIds :
        /\ CleanRun(p)
        /\ prev[p].op = "generate"
        /\ o \in prev[p].subj
        /\ o \in last[p].subj
        /\ prev[p].gens[o] = 1
        /\ last[p].log.gens[o] = 0
        /\ last[p].result = <<"No keypairs missing.">>

C3_NoDuplicateRequest ==
    /\ \A e \in genEvents : e.op = "generate" => e.missing # {}
    /\ \A s \in Slots : keypairs[s].active <= 1

\* C4: in bulk mode over {A, B}, both lacking keys, when B's generation
\* request fails and A's does not, a generation request is issued for A, A
\* ends key-complete and the call reports a failure.
C4_FailureOfBSparesA ==
    \A p \in Procs :
        (/\ pc[p] = "idle"
         /\ last[p].op = "generate"
         /\ last[p].cmd.all
         /\ ~revSince[p]
         /\ last[p].regen = {OrgA.id, OrgB.id}
         /\ last[p].log.genErr = {OrgB.id})
        => /\ last[p].log.gens[OrgA.id] >= 1
           /\ OrgA.id \in last[p].complete
           /\ ~Success(last[p].result)

\* what a listing showed has a non-revoked keypair of the type
ShownActive(shown, t) == <<t, FALSE>> \in shown

\* C5: revoked keypairs count as absent: once the listing loop is over, the
\* orgs selected for generation are exactly the target orgs whose listing
\* showed no non-revoked keypair of some type, whether it showed revoked ones
\* of that type or none; and the table of listKeypairs has a row for every
\* keypair of the org, the revoked ones included.
C5_RevokedIsAbsent ==
    \A p \in Procs :
        /\ pc[p] = "gk_gen" =>
              DOMAIN regenOrgs[p] =
                 {o \in subjectOrgs[p] :
                    \E l \in listed[p] :
                       l[1] = o /\ \E t \in KeyTypes : ~ShownActive(l[2], t)}
        /\ (/\ pc[p] = "idle"
            /\ last[p].op = "list"
            /\ Success(last[p].result)
            /\ ~revSince[p])
           => \A o \in OrgIds : \A t \in KeyTypes :
                 last[p].log.lists[o] = 1 =>
                    Cardinality({i \in 1..Len(last[p].printed) :
                                    last[p].printed[i].KEYTYPE = t})
                    = keypairs[<<o, t>>].active + keypairs[<<o, t>>].revoked

\* an org whose only Signing keypair is revoked, and which has an active
\* Encryption keypair, is selected for generation
C5_Witness ==
    \E p \in Procs : \E l \in listed[p] :
        /\ pc[p] = "gk_gen"
        /\ <<SigningKeyType, TRUE>> \in l[2]
        /\ ~ShownActive(l[2], SigningKeyType)
        /\ ShownActive(l[2], EncryptionKeyType)
        /\ l[1] \in DOMAIN regenOrgs[p]

\* C6: NewConfig returns a Config only for a root that is a directory with
\* permission bits exactly 0700, with the socket and pid paths under it; an
\* existing directory with a group or other bit set and an existing
\* non-directory yield an error; a directory NewConfig made is stat'ed again
\* and passes the same check before the Config is returned.
C6_PrivateRootOnly ==
    cfgPc = "done" =>
        /\ cfgResult.ok =>
              /\ IsDir(fs[arigatoRoot])
              /\ Perm(fs[arigatoRoot].mode) = REQUIRED_PERM
              /\ cfgResult.ArigatoRoot = arigatoRoot
              /\ cfgResult.SocketPath = Join(arigatoRoot, "daemon.socket")
              /\ cfgResult.PidPath = Join(arigatoRoot, "daemon.pid")
              /\ src = fs[arigatoRoot]
        /\ (~made /\ IsDir(fs[arigatoRoot]) /\ Perm(fs[arigatoRoot].mode) % 64 # 0)
              => ~cfgResult.ok
        /\ fs[arigatoRoot].kind = "file" => ~cfgResult.ok
        /\ made => fs[arigatoRoot] = [kind |-> "dir", mode |-> MkdirMode(REQUIRED_PERM, umask)]

\* the root was absent, NewConfig made it and returned the Config
C6_Witness ==
    /\ cfgPc = "done"
    /\ made
    /\ cfgResult.ok
    /\ src = [kind |-> "dir", mode |-> REQUIRED_PERM]

\* C7: in keypairs list and keypairs generate --org, a failure of the
\* registry during the org lookup or the keypair listing is never reported
\* as the org not being found, and an org that does not exist is.
C7_LookupFailureIsNotNotFound ==
    \A p \in Procs :
        (/\ pc[p] = "idle"
         /\ last[p].op \in {"generate", "list"}
         /\ ~last[p].cmd.all
         /\ last[p].log.enum = 1)
        => /\ (last[p].log.enumErr \/ last[p].log.listErr # {})
                 => ~IsNotFound(last[p].result)
           /\ (~last[p].log.enumErr /\ GetByName(last[p].cmd.org) = NoOrg)
                 => IsNotFound(last[p].result)

\* C8: in every run of generateKeypairs the orgs are enumerated at most
\* once, the keypairs of each target org are listed exactly once, and no
\* listing is issued after a generation request.
C8_OneListingPassFirst ==
    \A p \in Procs :
        (pc[p] = "idle" /\ last[p].op = "generate")
        => /\ last[p].log.enum <= 1
           /\ \A o \in last[p].subj : last[p].log.lists[o] = 1
           /\ ~last[p].log.late

\* C9: in bulk mode a failed listing of one org stops that org only: no
\* generation request is issued for it, every other target org is listed and,
\* when it lacks keys, generated for, and the call reports a failure.
C9_ListFailureStopsOneOrg ==
    \A p \in Procs :
        (/\ pc[p] = "idle"
         /\ last[p].op = "generate"
         /\ last[p].cmd.all
         /\ ~revSince[p]
         /\ last[p].log.listErr # {})
        => /\ \A o \in last[p].log.listErr : last[p].log.gens[o] = 0
           /\ \A o \in last[p].subj \ last[p].log.listErr :
                 /\ last[p].log.lists[o] = 1
                 /\ last[p].log.gens[o] >= 1 \/ KeyComplete(keypairs, o)
           /\ ~Success(last[p].result)

\* C10: generateKeypairsForOrg issues no generation request for an org that
\* is already key-complete, and none when no org can be resolved.
C10_ForOrgIsIdempotent ==
    /\ \A e \in genEvents : e.op = "forOrg" => e.missing # {}
    /\ \A p \in Procs :
          (/\ pc[p] = "idle"
           /\ last[p].op = "forOrg"
           /\ last[p].cmd.orgID = NoOrg
           /\ ~last[p].cmd.lookupOrg \/ last[p].log.enumErr \/ Len(orgs) = 0)
          => \A o \in OrgIds : last[p].log.gens[o] = 0

====
